---- MODULE Spec2Model ----
(***************************************************************************)
(* Model of hapy/stats/stats.py: the per-variant orchestrators analyseAA,  *)
(* analyseSNP and analyseHLA, the hard-call and soft-call haplotype        *)
(* builders, reference selection, the analysis-table assembly and the      *)
(* block resolver.                                                         *)
(*                                                                         *)
(* Python values are tagged tuples so that values of different Python      *)
(* types can be compared: a str is Str(<<characters>>), a list or numpy    *)
(* array of str is Arr(<<str, ...>>), a float is Num(n), numpy.nan is NaN. *)
(* A str is a sequence of one-character strings, so that list(s),          *)
(* s.split(".") and "".join(...) are modelled by what they do.             *)
(*                                                                         *)
(* statsmodels, scipy and sklearn are outside the repository: the numbers  *)
(* a fit returns are drawn from FitVals, one draw per fitted variant.      *)
(***************************************************************************)
EXTENDS Integers, Sequences, FiniteSets, TLC

VARIABLES
    famfile,   \* the caller's covariate table: IID -> [SEX, PHENO]
    pc,        \* "idle" (no orchestrator running) or "loop" (inside the for loop)
    ncalls,    \* orchestrator calls made so far on famfile
    hladat,    \* the call's argument: [kind, type, info, samples]; kind names the
               \* table read: hladat.AA, hladat.SNP or hladat.HLA
    fam,       \* processAnalysisInput_'s fam: IID -> [SEX, PHENO]
    variants,  \* info.AA_ID.unique()
    i,         \* position of the for loop in variants
    loc,       \* the orchestrator's local variables, which outlive an iteration
    output,    \* the output DataFrame: a sequence of rows
    result,    \* how the last call ended: "none", "returned" or the exception raised
    data,      \* processAnalysisInput_'s data: the columns left after trimming
    last,      \* history: what the last pass of the loop read, built and fitted,
               \* and the row the same variant gives when it is analysed first
    call,      \* a helper called on its own: its name and its arguments
    ret,       \* what the helper returned
    seed       \* the interpreter's str hash seed (PYTHONHASHSEED, random for
               \* each process), which fixes the iteration order of a set of str

vars == <<famfile, pc, ncalls, hladat, fam, variants, i, loc, output, result, data, last,
          call, ret, seed>>

---------------------------------------------------------------------------
(* Python values *)

NaN == <<"nan">>
Num(x) == <<"num", x>>
Str(s) == <<"str", s>>
Arr(b) == <<"arr", b>>
Unbound == <<"unbound">>
Missing == Str(<<"missing">>)

IsNum(v) == v[1] = "num"

\* ord(c) for the characters that occur in labels, residues and sample ids
Ord(c) ==
    CASE c = "." -> 46 [] c = "1" -> 49 [] c = "2" -> 50 [] c = "3" -> 51
      [] c = "4" -> 52
      [] c = "A" -> 65 [] c = "F" -> 70 [] c = "L" -> 76 [] c = "P" -> 80
      [] c = "S" -> 83 [] c = "T" -> 84 [] c = "W" -> 87 [] c = "Y" -> 89
      [] c = "a" -> 97 [] c = "b" -> 98 [] c = "c" -> 99
      [] c = "p" -> 112 [] c = "s" -> 115
      [] OTHER -> 0

\* s < t for Python str
RECURSIVE StrLess(_, _)
StrLess(s, t) ==
    IF s = <<>> THEN t # <<>>
    ELSE IF t = <<>> THEN FALSE
    ELSE IF Head(s) # Head(t) THEN Ord(Head(s)) < Ord(Head(t))
    ELSE StrLess(Tail(s), Tail(t))

\* sorted(S) for a set of str
RECURSIVE SortStr(_)
SortStr(S) ==
    IF S = {} THEN <<>>
    ELSE LET m == CHOOSE x \in S : \A y \in S \ {x} : StrLess(x, y)
         IN  <<m>> \o SortStr(S \ {m})

\* s.split(sep)[0]
RECURSIVE SplitHead(_, _)
SplitHead(s, sep) ==
    IF s = <<>> \/ Head(s) = sep THEN <<>>
    ELSE <<Head(s)>> \o SplitHead(Tail(s), sep)

\* A variant id is its "_"-separated tokens; id.split("_")[-1]
LastToken(id) == id[Len(id)]

RECURSIVE SelectIdx(_, _, _)
\* the elements of seq at the positions (in increasing order) that satisfy keep
SelectIdx(seq, keep, k) ==
    IF k > Len(seq) THEN <<>>
    ELSE (IF keep[k] THEN <<seq[k]>> ELSE <<>>) \o SelectIdx(seq, keep, k + 1)

\* np.argmax: the first position of the largest value (0 for an empty sequence)
ArgMax(s) ==
    IF s = <<>> THEN 0
    ELSE CHOOSE k \in DOMAIN s :
            /\ \A j \in DOMAIN s : s[j] <= s[k]
            /\ \A j \in 1..(k - 1) : s[j] < s[k]

RemoveAt(s, k) == SubSeq(s, 1, k - 1) \o SubSeq(s, k + 1, Len(s))

Range(s) == {s[k] : k \in DOMAIN s}

---------------------------------------------------------------------------
(* checkAAblock, get_aminoacids, getRefAA *)

RECURSIVE Flatten(_)
\* [x for i in aablock for x in list(i)]
Flatten(block) ==
    IF block = <<>> THEN <<>> ELSE Head(block) \o Flatten(Tail(block))

Count(chars, c) == Cardinality({k \in DOMAIN chars : chars[k] = c})

RECURSIVE FirstOcc(_, _)
\* the keys of Counter(chars), in insertion order
FirstOcc(chars, seen) ==
    IF chars = <<>> THEN <<>>
    ELSE IF Head(chars) \in seen THEN FirstOcc(Tail(chars), seen)
    ELSE <<Head(chars)>> \o FirstOcc(Tail(chars), seen \cup {Head(chars)})

RECURSIVE SortByCount(_, _)
\* sorted(counter.items(), key=count, reverse=True): stable, largest count first
SortByCount(keys, chars) ==
    IF keys = <<>> THEN <<>>
    ELSE LET k == CHOOSE j \in DOMAIN keys :
                    /\ \A m \in DOMAIN keys : Count(chars, keys[m]) <= Count(chars, keys[j])
                    /\ \A m \in 1..(j - 1) : Count(chars, keys[m]) < Count(chars, keys[j])
         IN  <<keys[k]>> \o SortByCount(RemoveAt(keys, k), chars)

\* Mutant of checkAAblock: the key taken is the first one counted, not the most
\* frequent one
checkAAblockFirstSeen(aablock) ==
    LET chars == Flatten(aablock)
        aakeys == SortByCount(FirstOcc(chars, {}), chars)
    IN  IF Len(aakeys) > 1
        THEN IF Count(chars, aakeys[1]) # Count(chars, aakeys[2])
             THEN Str(<<FirstOcc(chars, {})[1]>>)
             ELSE Arr(aablock)
        ELSE IF Len(aakeys) = 1 THEN Str(aablock[1])
        ELSE Str(<<>>)

\* Mutant of checkAAblock: a tie is resolved to the first of the tied keys
checkAAblockTieBroken(aablock) ==
    LET chars == Flatten(aablock)
        aakeys == SortByCount(FirstOcc(chars, {}), chars)
    IN  IF Len(aakeys) > 1 THEN Str(<<aakeys[1]>>)
        ELSE IF Len(aakeys) = 1 THEN Str(aablock[1])
        ELSE Str(<<>>)

checkAAblock(aablock) ==
    LET chars == Flatten(aablock)
        aakeys == SortByCount(FirstOcc(chars, {}), chars)
    IN  IF Len(aakeys) > 1
        THEN IF Count(chars, aakeys[1]) # Count(chars, aakeys[2])
             THEN Str(<<aakeys[1]>>)
             ELSE Arr(aablock)
        ELSE IF Len(aakeys) = 1 THEN Str(aablock[1])
        ELSE Str(<<>>)

IsPresence(c) == c \in {"P", "T", "p"}

\* aalist[presence]: the residues of the rows where the label has a presence marker
PresentAA(haplo, idlist) ==
    SelectIdx([k \in DOMAIN idlist |-> LastToken(idlist[k])],
              [k \in DOMAIN idlist |-> IsPresence(haplo[k])], 1)

RECURSIVE get_aminoacids(_, _)
get_aminoacids(idlist, haplotypes) ==
    IF haplotypes = <<>> THEN <<>>
    ELSE LET block == checkAAblock(PresentAA(Head(haplotypes), idlist))
         IN  (IF block # Str(<<>>) THEN <<block>> ELSE <<>>)
                \o get_aminoacids(idlist, Tail(haplotypes))

getRefAA(haplo, aalist) == checkAAblock(PresentAA(haplo, aalist))

---------------------------------------------------------------------------
(* Data frames.  A slice aadf of a data table is                            *)
(*   [index |-> <<variant ids>>, columns |-> {column names}, val |-> ...]   *)
(* with val[k][c] the call (hard) or dosage (soft) of row k in column c.    *)
(* A haplotype matrix is [index, columns, cell] with cell[s][h] the value   *)
(* of sample s in column h.                                                 *)

\* the frequency floor of basicQC, in percent
FloorPct == 1

RECURSIVE SumOver(_, _)
\* the sum of f[x] over the set S
SumOver(S, f) ==
    IF S = {} THEN 0
    ELSE LET x == CHOOSE y \in S : TRUE IN f[x] + SumOver(S \ {x}, f)

\* df.sum(): the column totals, in column order
ColSums(df) ==
    [k \in DOMAIN df.columns |->
        SumOver(df.index, [s \in df.index |-> df.cell[s][df.columns[k]]])]

\* df[keep]: the columns at the positions keep marks, in order
SelectCols(df, keep) ==
    LET cols == SelectIdx(df.columns, keep, 1)
    IN  [index |-> df.index, columns |-> cols,
         cell |-> [s \in df.index |-> [h \in Range(cols) |-> df.cell[s][h]]]]

\* df.drop(h, axis=1): every column labelled h goes
DropCol(df, h) == SelectCols(df, [k \in DOMAIN df.columns |-> df.columns[k] # h])

\* Mutant of AboveFloor: a column at exactly the floor is kept
AboveFloorInclusive(sums, rows) ==
    [k \in DOMAIN sums |-> 100 * sums[k] >= FloorPct * 2 * rows]

\* sum / (2 * rows) > 0.01, for each column total
AboveFloor(sums, rows) == [k \in DOMAIN sums |-> 100 * sums[k] > FloorPct * 2 * rows]

HighFreq(df) == AboveFloor(ColSums(df), Cardinality(df.index))

\* if basicQC: df = df[highfreq.index]
Filtered(df, basicQC) == IF basicQC THEN SelectCols(df, HighFreq(df)) ELSE df

\* "".join of the calls of one sample copy over the rows of the slice
HaploOf(aa_df, c) == [k \in DOMAIN aa_df.index |-> aa_df.val[k][c]]

\* groupby(["index", "haplo"]).size().unstack(fill_value=0): for each sample
\* and label, the number of the sample's copies that carry the label
HaploCounts(aa_df, idx, labels) ==
    [index |-> idx, columns |-> labels,
     cell |-> [s \in idx |-> [h \in Range(labels) |->
                Cardinality({c \in aa_df.columns :
                    SplitHead(c, ".") = s /\ HaploOf(aa_df, c) = h})]]]

\* the matrix returned with the residues of its columns
WithAminoacids(aa_df, kept) ==
    [df |-> kept, aminoacids |-> get_aminoacids(aa_df.index, kept.columns)]

makehaplodf(aa_df, basicQC) ==
    WithAminoacids(aa_df,
        Filtered(HaploCounts(aa_df, {SplitHead(c, ".") : c \in aa_df.columns},
                             SortStr({HaploOf(aa_df, c) : c \in aa_df.columns})),
                 basicQC))

\* df[df.aa_length==1]: the positions of the rows named by one residue
SingleRows(aa_df) ==
    SelectIdx([k \in DOMAIN aa_df.index |-> k],
              [k \in DOMAIN aa_df.index |-> Len(LastToken(aa_df.index[k])) = 1], 1)

\* set_index("AA") ... .T: samples by residues
ProbMatrix(aa_df, rows, cols) ==
    [index |-> aa_df.columns, columns |-> cols,
     cell |-> [s \in aa_df.columns |-> [h \in Range(cols) |->
                aa_df.val[rows[CHOOSE j \in DOMAIN rows : cols[j] = h]][s]]]]

ResiduesOf(aa_df, rows) == [j \in DOMAIN rows |-> LastToken(aa_df.index[rows[j]])]

ProbOf(aa_df, rows) == ProbMatrix(aa_df, rows, ResiduesOf(aa_df, rows))

makehaploprob(aa_df, basicQC) == Filtered(ProbOf(aa_df, SingleRows(aa_df)), basicQC)

---------------------------------------------------------------------------
(* obt_haplo_hard, obt_haplo_soft *)

NoFrame == [index |-> {}, columns |-> <<>>, cell |-> <<>>]

\* what a builder hands back, or the exception it raises
Built(df, AAcount, refAA, aalist, haplocount) ==
    [err |-> "none", haplodf |-> df, AAcount |-> AAcount, refAA |-> refAA,
     aalist |-> aalist, haplocount |-> haplocount]
Raised(e) ==
    [err |-> e, haplodf |-> NoFrame, AAcount |-> 0, refAA |-> Unbound,
     aalist |-> <<>>, haplocount |-> 0]

\* haplodf.columns[np.argmax(haplodf.sum())]
MostFrequent(haplodf) == haplodf.columns[ArgMax(ColSums(haplodf))]

\* Mutant of HardMulti: AAcount is counted after the reference column is removed
HardMultiCountAfter(aadf, haplodf, aalist, cols, missing, missing2) ==
    IF missing \in Range(cols) \/ missing2 \in Range(cols)
    THEN IF missing \notin Range(cols) THEN Raised("KeyError")
         ELSE Built(DropCol(haplodf, missing), Len(cols) - 1, Missing, aalist,
                    Len(cols) - 1)
    ELSE IF cols = <<>> THEN Raised("ValueError")
         ELSE Built(DropCol(haplodf, MostFrequent(haplodf)), Len(cols) - 1,
                    getRefAA(MostFrequent(haplodf), aadf.index), aalist,
                    Len(cols) - 1)

\* Mutant of HardMulti: the most frequent column is the reference, whether or
\* not an all-absence label is among the columns
HardMultiMajority(aadf, haplodf, aalist, cols, missing, missing2) ==
    IF cols = <<>> THEN Raised("ValueError")
    ELSE Built(DropCol(haplodf, MostFrequent(haplodf)), Len(cols),
               getRefAA(MostFrequent(haplodf), aadf.index), aalist, Len(cols) - 1)

\* lines 217-238: an AA_ID of several rows
HardMulti(aadf, haplodf, aalist, cols, missing, missing2) ==
    IF missing \in Range(cols) \/ missing2 \in Range(cols)
    THEN IF missing \notin Range(cols) THEN Raised("KeyError")
         ELSE Built(DropCol(haplodf, missing), Len(cols), Missing, aalist,
                    Len(cols) - 1)
    ELSE IF cols = <<>> THEN Raised("ValueError")
         ELSE Built(DropCol(haplodf, MostFrequent(haplodf)), Len(cols),
                    getRefAA(MostFrequent(haplodf), aadf.index), aalist,
                    Len(cols) - 1)

\* lines 240-257: an AA_ID of one row
HardSingle(haplodf, aalist) ==
    IF Len(aalist) > 1
    THEN Built(DropCol(haplodf, MostFrequent(haplodf)), 2,
               Str(MostFrequent(haplodf)), aalist, Len(haplodf.columns) - 1)
    ELSE Built(haplodf, 0, (aalist \o <<Missing>>)[1], aalist \o <<Missing>>,
               Len(haplodf.columns))

HardOf(aadf, made) ==
    IF Len(aadf.index) > 1
    THEN HardMulti(aadf, made.df, made.aminoacids, made.df.columns,
                   [k \in 1..Len(aadf.index) |-> "A"],
                   [k \in 1..Len(aadf.index) |-> "a"])
    ELSE HardSingle(made.df, [k \in DOMAIN made.df.columns |-> Str(made.df.columns[k])])

obt_haplo_hard(aadf) == HardOf(aadf, makehaplodf(aadf, TRUE))

RECURSIVE Replace(_, _, _)
\* s.replace(old, new) for a one-character old
Replace(s, old, new) ==
    IF s = <<>> THEN <<>>
    ELSE (IF Head(s) = old THEN new ELSE <<Head(s)>>) \o Replace(Tail(s), old, new)

\* "AA_" + cname.replace(".", "dot").replace("*", "asterisk")
RenameAA(cname) ==
    <<"AA_">> \o Replace(Replace(cname, ".", <<"d", "o", "t">>), "*",
                         <<"a", "s", "t", "e", "r", "i", "s", "k">>)

\* haplo.columns = [RenameAA(c) for c in haplo.columns]
RenameCols(df) ==
    [index |-> df.index,
     columns |-> [k \in DOMAIN df.columns |-> RenameAA(df.columns[k])],
     cell |-> [s \in df.index |-> [h \in {RenameAA(c) : c \in Range(df.columns)} |->
                df.cell[s][CHOOSE c \in Range(df.columns) : RenameAA(c) = h]]]]

\* lines 265-278: an AA_ID of several rows
SoftMulti(made, cols, refAA) ==
    IF cols = <<>> THEN Raised("ValueError")
    ELSE Built(RenameCols(DropCol(made, refAA)), Len(cols), Str(refAA),
               [k \in DOMAIN cols |-> Str(cols[k])],
               Len(DropCol(made, refAA).columns))

\* aadf.drop("AA_ID", axis=1).T with columns ["solo_amino_acid"]
Solo(aadf) ==
    [index |-> aadf.columns, columns |-> << <<"solo_amino_acid">> >>,
     cell |-> [s \in aadf.columns |->
                [h \in {<<"solo_amino_acid">>} |-> aadf.val[1][s]]]]

\* infodf[name]: KeyError when the info table has no such column
HasColumn(infodf, name) == name \in DOMAIN infodf[1]

\* Mutant of SoftSingle: the reference is read from alleleA whatever the suffix
SoftSingleFromInfo(solo, suffix, infodf) ==
    IF ~HasColumn(infodf, "alleleA") \/ ~HasColumn(infodf, "alleleB")
    THEN Raised("KeyError")
    ELSE Built(solo, 2, Str(infodf[1].alleleA),
               <<Str(infodf[1].alleleA), Str(infodf[1].alleleB)>>, 1)

\* lines 280-291: an AA_ID of one row
SoftSingle(solo, suffix, infodf) ==
    IF Len(suffix) = 1
    THEN Built(solo, 2, Str(suffix), <<Str(suffix), Missing>>, 1)
    ELSE IF ~HasColumn(infodf, "alleleA") \/ ~HasColumn(infodf, "alleleB")
    THEN Raised("KeyError")
    ELSE Built(solo, 2, Str(infodf[1].alleleA),
               <<Str(infodf[1].alleleA), Str(infodf[1].alleleB)>>, 1)

SoftOf(aadf, infodf, made) ==
    IF Len(aadf.index) > 1
    THEN SoftMulti(made, made.columns, MostFrequent(made))
    ELSE SoftSingle(Solo(aadf), LastToken(aadf.index[1]), infodf)

obt_haplo_soft(aadf, infodf) == SoftOf(aadf, infodf, makehaploprob(aadf, TRUE))

---------------------------------------------------------------------------
(* Model fitting.  The fitted numbers come from statsmodels; est is the    *)
(* number drawn for this fit.                                              *)

\* the exposure columns of an analysis table: abt.columns[:-2]
Exposure(abt) == SubSeq(abt.columns, 1, Len(abt.columns) - 2)

\* lrp, fp and the rounded coefficients of the first haplotypenumber columns
obt(dataframe, haplotypenumber, est) ==
    [err |-> "none", lrp |-> Num(est), fp |-> Num(est),
     coefs |-> [k \in 1..haplotypenumber |-> est]]

\* the formula "PHENO ~ C(SEX) +" with no term after the "+" does not parse
linear_model(dataframe, est) ==
    IF Exposure(dataframe) = <<>>
    THEN [err |-> "PatsyError", pvalue |-> Unbound, coef |-> Unbound,
          ci1 |-> Unbound, ci2 |-> Unbound]
    ELSE [err |-> "none", pvalue |-> Num(est), coef |-> Num(est),
          ci1 |-> Num(est), ci2 |-> Num(est)]

---------------------------------------------------------------------------
(* subsectionFam, processAnalysisInput_ *)

\* the columns of a genotype table over the samples ids
DataColumns(datatype, ids) ==
    IF datatype = "hardcall"
    THEN ids \cup {x \o <<".", "1">> : x \in ids}
    ELSE ids

\* Mutant of subsectionFam: the table is cut to the samples both tables name,
\* and the error is kept for the case where they share none
subsectionFamCommon(columns, famindex, datatype) ==
    LET common == {x \in famindex : x \in columns}
    IN  IF common # {}
        THEN [err |-> "none", columns |-> DataColumns(datatype, common)]
        ELSE [err |-> "KeyError", columns |-> {}]

\* the columns kept, or KeyError when df has no column of that name
subsectionFam(columns, famindex, datatype) ==
    LET newix == IF datatype = "softcall" THEN famindex
                 ELSE IF datatype = "hardcall"
                 THEN famindex \cup {x \o <<".", "1">> : x \in famindex}
                 ELSE {}
    IN  IF newix \subseteq columns
        THEN [err |-> "none", columns |-> newix]
        ELSE [err |-> "KeyError", columns |-> {}]

\* fam.PHENO = fam.PHENO - 1, on the copy
Rebase(table) ==
    [x \in DOMAIN table |-> [SEX |-> table[x].SEX, PHENO |-> table[x].PHENO - 1]]

RECURSIVE Reverse(_)
Reverse(s) == IF s = <<>> THEN <<>> ELSE Reverse(Tail(s)) \o <<Head(s)>>

\* Mutant of Unique: the distinct ids, the one that occurs first coming last
UniqueReversed(info) == Reverse(FirstOcc([k \in DOMAIN info |-> info[k].AA_ID], {}))

\* info.AA_ID.unique(): in order of first occurrence
Unique(info) == FirstOcc([k \in DOMAIN info |-> info[k].AA_ID], {})

\* Mutant of processAnalysisInput_: PHENO is rebased in the caller's table
processAnalysisInputInPlace(columns, info, fam_file, datatype) ==
    LET newfam == Rebase(fam_file)
        sub == subsectionFam(columns, DOMAIN newfam, datatype)
    IN  [err |-> sub.err, columns |-> sub.columns, fam |-> newfam,
         variants |-> Unique(info), famfile |-> newfam]

processAnalysisInput_(columns, info, fam_file, datatype) ==
    LET newfam == Rebase(fam_file)
        sub == subsectionFam(columns, DOMAIN newfam, datatype)
    IN  [err |-> sub.err, columns |-> sub.columns, fam |-> newfam,
         variants |-> Unique(info), famfile |-> fam_file]

\* pd.concat([haplodf, fam], axis=1): joined on the index
Concat(haplodf, famtable) ==
    [index |-> haplodf.index \cup DOMAIN famtable,
     columns |-> haplodf.columns \o << <<"SEX">>, <<"PHENO">> >>,
     PHENO |-> [s \in haplodf.index \cup DOMAIN famtable |->
                 IF s \in DOMAIN famtable THEN Num(famtable[s].PHENO) ELSE NaN]]

\* pd.concat([haplodf, fam], axis=1) with its cells: a row for every index
\* value of either table, NaN where a table has no such row
Joined(haplodf, famtable) ==
    [index |-> haplodf.index \cup DOMAIN famtable,
     columns |-> haplodf.columns \o << <<"SEX">>, <<"PHENO">> >>,
     cell |-> [s \in haplodf.index \cup DOMAIN famtable |->
                [h \in Range(haplodf.columns) |->
                    IF s \in haplodf.index THEN Num(haplodf.cell[s][h]) ELSE NaN]],
     SEX |-> [s \in haplodf.index \cup DOMAIN famtable |->
                 IF s \in DOMAIN famtable THEN Num(famtable[s].SEX) ELSE NaN],
     PHENO |-> [s \in haplodf.index \cup DOMAIN famtable |->
                 IF s \in DOMAIN famtable THEN Num(famtable[s].PHENO) ELSE NaN]]

---------------------------------------------------------------------------
(* The loop bodies of analyseAA, analyseSNP and analyseHLA.                *)
(* L holds the function's local variables as the previous iteration left   *)
(* them; built is what lines 342-345, 421-425 or 473-476 produced for the  *)
(* variant's slice.  Each body gives the exception raised (or "none"), the *)
(* locals after the iteration, the row appended and the function fitted.   *)

FreshLoc ==
    [AAcount |-> Unbound, haplocount |-> Unbound, refAA |-> Unbound,
     aalist |-> Unbound, abt |-> Unbound, lrp |-> Unbound, anovap |-> Unbound,
     multicoef |-> Unbound, uni_p |-> Unbound, coef |-> Unbound,
     conf_int1 |-> Unbound, conf_int2 |-> Unbound]

\* reading a local that was never assigned raises UnboundLocalError
ReadAll(vals) ==
    IF \E k \in DOMAIN vals : vals[k] = Unbound THEN "UnboundLocalError" ELSE "none"

FirstErr(errs) ==
    IF \A k \in DOMAIN errs : errs[k] = "none" THEN "none"
    ELSE errs[CHOOSE k \in DOMAIN errs :
                errs[k] # "none" /\ \A j \in 1..(k - 1) : errs[j] = "none"]

\* "snp_{}".format(col), "hla_{}".format(col)
Prefixed(prefix, df_) ==
    [index |-> df_.index, columns |-> [k \in DOMAIN df_.columns |-> <<prefix>> \o df_.columns[k]]]

RECURSIVE IterationOrder(_, _)
\* the order in which a set of str with the distinct elements keys is iterated
\* in a process whose hash seed is hashseed
IterationOrder(keys, hashseed) ==
    IF keys = <<>> THEN <<>>
    ELSE <<keys[(hashseed % Len(keys)) + 1]>>
            \o IterationOrder(RemoveAt(keys, (hashseed % Len(keys)) + 1),
                              hashseed \div Len(keys))

\* ", ".join(set([str(x) for x in aalist])): the distinct elements, in the
\* iteration order of the set
JoinSet(aalist, hashseed) == IterationOrder(FirstOcc(aalist, {}), hashseed)

\* Mutant of TierAA: the fields of a tier that did not run are filled with 0
TierAAZero(L1, AAcount, o, m) ==
    IF AAcount > 2
    THEN [L1 EXCEPT !.lrp = o.lrp, !.anovap = o.fp, !.multicoef = Str(o.coefs),
                    !.uni_p = Num(0), !.coef = Num(0)]
    ELSE IF AAcount = 2
    THEN [L1 EXCEPT !.uni_p = m.pvalue, !.coef = m.coef,
                    !.lrp = Num(0), !.anovap = Num(0), !.multicoef = Num(0)]
    ELSE [L1 EXCEPT !.lrp = Num(0), !.anovap = Num(0), !.uni_p = Num(0),
                    !.refAA = NaN, !.coef = Num(0), !.multicoef = Num(0)]

\* lines 350-373: the tier chosen by AAcount, and what each tier assigns
TierAA(L1, AAcount, o, m) ==
    IF AAcount > 2
    THEN [L1 EXCEPT !.lrp = o.lrp, !.anovap = o.fp, !.multicoef = Str(o.coefs),
                    !.uni_p = NaN, !.coef = NaN]
    ELSE IF AAcount = 2
    THEN [L1 EXCEPT !.uni_p = m.pvalue, !.coef = m.coef,
                    !.lrp = NaN, !.anovap = NaN, !.multicoef = NaN]
    ELSE [L1 EXCEPT !.lrp = NaN, !.anovap = NaN, !.uni_p = NaN,
                    !.refAA = NaN, !.coef = NaN, !.multicoef = NaN]

BodyAA(L, famtable, x, aainfo, built, est, hashseed) ==
    LET abt == Concat(built.haplodf, famtable)
        L1 == [L EXCEPT !.AAcount = Num(built.AAcount), !.refAA = built.refAA,
                        !.aalist = Arr(built.aalist),
                        !.haplocount = Num(built.haplocount),
                        !.abt = abt]
        o == obt(abt, built.haplocount, est)
        m == linear_model(abt, est)
        L2 == TierAA(L1, built.AAcount, o, m)
        fit == IF built.AAcount > 2 THEN o.err
               ELSE IF built.AAcount = 2 THEN m.err ELSE "none"
    IN  [err |-> FirstErr(<<built.err, fit,
                           ReadAll(<<L2.lrp, L2.anovap, L2.multicoef, L2.uni_p,
                                     L2.coef, L2.refAA>>)>>),
         loc |-> L2,
         ran |-> IF built.AAcount > 2 THEN "obt"
                 ELSE IF built.AAcount = 2 THEN "linear_model" ELSE "none",
         row |-> [VARIANT |-> x, GENE |-> aainfo[1].GENE, AA_POS |-> aainfo[1].AA_POS,
                  LR_p |-> L2.lrp, Anova_p |-> L2.anovap,
                  multi_Coef |-> L2.multicoef, Uni_p |-> L2.uni_p,
                  Uni_Coef |-> L2.coef,
                  Amino_Acids |-> JoinSet(built.aalist, hashseed),
                  Ref_AA |-> L2.refAA]]

BodySNP(L, famtable, x, snpinfo, datatype, built, est) ==
    LET AAcount == IF datatype = "softcall" THEN 2 ELSE built.AAcount
        abt == Concat(Prefixed("snp_", built.haplodf), famtable)
        m == linear_model(abt, est)
        L1 == [L EXCEPT !.AAcount = Num(AAcount), !.abt = abt]
        L2 == IF AAcount = 2
              THEN [L1 EXCEPT !.uni_p = m.pvalue, !.coef = m.coef,
                              !.conf_int1 = m.ci1, !.conf_int2 = m.ci2]
              ELSE [L1 EXCEPT !.uni_p = NaN, !.coef = NaN]
    IN  [err |-> FirstErr(<<built.err, IF AAcount = 2 THEN m.err ELSE "none",
                           ReadAll(<<L2.uni_p, L2.coef, L2.conf_int1, L2.conf_int2>>)>>),
         loc |-> L2,
         ran |-> IF AAcount = 2 THEN "linear_model" ELSE "none",
         row |-> [VARIANT |-> x, POS |-> snpinfo[1].POS,
                  Uni_p |-> L2.uni_p, Uni_Coef |-> L2.coef,
                  CI_0025 |-> L2.conf_int1, CI_0975 |-> L2.conf_int2]]

BodyHLA(L, famtable, x, hlainfo, datatype, built, est) ==
    LET abt == Concat(Prefixed("hla_", built.haplodf), famtable)
        m == linear_model(abt, est)
        L2 == [L EXCEPT !.abt = abt,
                        !.uni_p = m.pvalue, !.coef = m.coef,
                        !.conf_int1 = m.ci1, !.conf_int2 = m.ci2]
    IN  [err |-> FirstErr(<<built.err, m.err>>),
         loc |-> L2,
         ran |-> "linear_model",
         row |-> [VARIANT |-> x, GENE |-> hlainfo[1].GENE, POS |-> hlainfo[1].POS,
                  Uni_p |-> L2.uni_p, Uni_Coef |-> L2.coef,
                  CI_0025 |-> L2.conf_int1, CI_0975 |-> L2.conf_int2]]

Body(kind, L, famtable, x, xinfo, datatype, built, est, hashseed) ==
    IF kind = "AA" THEN BodyAA(L, famtable, x, xinfo, built, est, hashseed)
    ELSE IF kind = "SNP" THEN BodySNP(L, famtable, x, xinfo, datatype, built, est)
    ELSE BodyHLA(L, famtable, x, xinfo, datatype, built, est)

\* output[["LR_p","Uni_p"]].fillna(0).sum(1).replace(0, np.nan)
LRpUnip(row) ==
    LET z(v) == IF IsNum(v) THEN v[2] ELSE 0
        total == z(row.LR_p) + z(row.Uni_p)
    IN  IF total = 0 THEN NaN ELSE Num(total)

---------------------------------------------------------------------------
(* Inputs.  The tables of a call are read where the code reads them: the   *)
(* sample columns and info.AA_ID in processAnalysisInput_, the rows of a   *)
(* variant when the loop slices them out.                                  *)

MaxCalls == 2     \* orchestrator calls on one famfile
MaxRows == 3      \* rows of an info table
MaxDose == 1      \* largest dosage of a soft call

FitVals == {0, 1}

\* hash seeds of a process: two that order a set of two str differently
HashSeeds == {0, 1}

S1 == <<"s", "1">>
S2 == <<"s", "2">>
S3 == <<"s", "3">>

\* the samples of the genotype table, and the sample sets of a covariate table
DataIds == {S1, S2}
FamIdSets == {{S1, S2}, {S1}, {S1, S3}, {S3}}

\* one covariate table for each sample set; SEX and PHENO are coded 1 or 2,
\* and both codes occur
FamFiles ==
    {[s \in ids |-> IF s = S1 THEN [SEX |-> 1, PHENO |-> 1]
                               ELSE [SEX |-> 2, PHENO |-> 2]] : ids \in FamIdSets}

VariantIds(kind) == {<<kind, "A", "9", "100">>, <<kind, "B", "9", "200">>}

AlleleA == <<"A">>
AlleleB == <<"T">>

\* breakitup: the AA_ID is the first four tokens of a variant id
InfoRow(v) ==
    [AA_ID |-> v, GENE |-> v[2], AA_POS |-> v[3], POS |-> v[4],
     alleleA |-> AlleleA, alleleB |-> AlleleB]

InfoPool(kind) ==
    UNION {{[k \in 1..n |-> InfoRow(f[k])] : f \in [1..n -> VariantIds(kind)]}
            : n \in 1..MaxRows}

\* the info table as HLAdata.add_data cuts it: AA_ID, GENE, AA_POS, POS
Bare(info) ==
    [k \in DOMAIN info |-> [AA_ID |-> info[k].AA_ID, GENE |-> info[k].GENE,
                            AA_POS |-> info[k].AA_POS, POS |-> info[k].POS]]

\* The info tables of a call.  The allele columns are read by obt_haplo_soft
\* only: it is for the soft-call amino acids that a table comes with them and
\* without them
InfoTables(kind, datatype) ==
    InfoPool(kind) \cup
        (IF kind = "AA" /\ datatype = "softcall"
         THEN {Bare(t) : t \in InfoPool(kind)} ELSE {})

Kinds == {"AA", "SNP", "HLA"}
Types == {"hardcall", "softcall"}

\* A row of a slice is named by the tokens of its variant id that follow the
\* AA_ID: one residue letter, or several
Residues == <<"F", "S", "Y", "W", "L", "F">>
RowIds(n) ==
    {[k \in 1..n |-> << IF two /\ k = 1 THEN <<Residues[k], Residues[k + 1]>>
                        ELSE <<Residues[k]>> >>] : two \in BOOLEAN}

\* the labels a haplotype copy may carry over n rows: absent everywhere
\* ("A" or "a"), present ("T") on one row, or present on the first two rows
HardLabels(n) ==
    {[k \in 1..n |-> "A"], [k \in 1..n |-> "a"]}
    \cup {[k \in 1..n |-> IF k = j THEN "T" ELSE "A"] : j \in 1..n}
    \cup {[k \in 1..n |-> IF k <= 2 THEN "T" ELSE "A"]}

\* The copies are filled in label order: the loop body reads the column
\* totals of the matrix, which no permutation of the copies changes
Fillings(n, columns) ==
    {lab \in [columns -> HardLabels(n)] :
        \A c, d \in columns : StrLess(c, d) => ~StrLess(lab[d], lab[c])}

HardSlices(n, columns) ==
    {[index |-> ix, columns |-> columns,
      val |-> [k \in 1..n |-> [c \in columns |-> lab[c][k]]]] :
        ix \in RowIds(n), lab \in Fillings(n, columns)}

SoftSlices(n, columns) ==
    {[index |-> ix, columns |-> columns, val |-> v] :
        ix \in RowIds(n), v \in [1..n -> [columns -> 0..MaxDose]]}

\* snpdf.drop(columns=['AA_ID']).T.sort_index()
Transpose(aadf) ==
    [index |-> aadf.columns, columns |-> aadf.index,
     cell |-> [s \in aadf.columns |-> [h \in Range(aadf.index) |->
                aadf.val[CHOOSE k \in DOMAIN aadf.index : aadf.index[k] = h][s]]]]

\* lines 342-345 of analyseAA, 421-425 of analyseSNP, 473-476 of analyseHLA
Dispatch(kind, datatype, aadf, aainfo) ==
    IF datatype = "hardcall" THEN obt_haplo_hard(aadf)
    ELSE IF kind = "AA" THEN obt_haplo_soft(aadf, aainfo)
    ELSE Built(Transpose(aadf), 0, Unbound, <<>>, 0)

\* the columns that survive the frequency floor, before a reference is removed
Survivors(kind, datatype, aadf) ==
    IF datatype = "hardcall" THEN makehaplodf(aadf, TRUE).df
    ELSE IF kind = "AA" /\ Len(aadf.index) > 1 THEN makehaploprob(aadf, TRUE)
    ELSE Transpose(aadf)

\* What the loop body reads of a slice: the builder's result (of the matrix
\* only its index and columns: the cells go to the fit), and for the history
\* the slice's row count and its surviving columns; their totals are kept
\* for the scenario only
Read(b, rows, kept) ==
    [built |-> [b EXCEPT !.haplodf = [index |-> b.haplodf.index,
                                      columns |-> b.haplodf.columns]],
     rows |-> rows, kept |-> kept.columns, sums |-> <<>>]

Prepare(kind, datatype, aadf, aainfo) ==
    Read(Dispatch(kind, datatype, aadf, aainfo), Len(aadf.index),
         Survivors(kind, datatype, aadf))

ColumnSets(datatype) == {DataColumns(datatype, ids) : ids \in SUBSET DataIds \ {{}}}

\* every outcome of Prepare over the slices of n rows
PreparedHard ==
    [n \in 1..MaxRows |-> [columns \in ColumnSets("hardcall") |->
        {Prepare("AA", "hardcall", s, <<>>) : s \in HardSlices(n, columns)}]]
PreparedSoftAA ==
    [n \in 1..MaxRows |-> [columns \in ColumnSets("softcall") |->
        [alleles \in BOOLEAN |->
            {Prepare("AA", "softcall", s,
                     IF alleles THEN <<[alleleA |-> AlleleA, alleleB |-> AlleleB]>>
                                ELSE <<[AA_ID |-> <<>>]>>) :
                s \in SoftSlices(n, columns)}]]]
PreparedSoft ==
    [n \in 1..MaxRows |-> [columns \in ColumnSets("softcall") |->
        {Prepare("SNP", "softcall", s, <<>>) : s \in SoftSlices(n, columns)}]]

\* The scenario: two rows over four samples, whose eight copies carry AA four
\* times, AT three times and TA once, in any arrangement
S4 == <<"s", "4">>
ScenarioIds == {S1, S2, S3, S4}
ScenarioFamFiles == [ScenarioIds -> [SEX : {1}, PHENO : {1, 2}]]
ScenarioInfo == [k \in 1..2 |-> InfoRow(<<"AA", "A", "9", "100">>)]
ScenarioColumns == DataColumns("hardcall", ScenarioIds)
ScenarioTimes(lab, h) == Cardinality({c \in ScenarioColumns : lab[c] = h})
ScenarioSlices ==
    {[index |-> ix, columns |-> ScenarioColumns,
      val |-> [k \in 1..2 |-> [c \in ScenarioColumns |-> lab[c][k]]]] :
        ix \in RowIds(2),
        lab \in {l \in [ScenarioColumns -> {<<"A", "A">>, <<"A", "T">>, <<"T", "A">>}] :
                    /\ ScenarioTimes(l, <<"A", "A">>) = 4
                    /\ ScenarioTimes(l, <<"A", "T">>) = 3
                    /\ ScenarioTimes(l, <<"T", "A">>) = 1}}
PreparedScenario ==
    {[Prepare("AA", "hardcall", s, <<>>) EXCEPT
        !.sums = ColSums(Survivors("AA", "hardcall", s))] : s \in ScenarioSlices}

Prepared(kind, datatype, xinfo, columns) ==
    IF columns = ScenarioColumns THEN PreparedScenario
    ELSE IF datatype = "hardcall" THEN PreparedHard[Len(xinfo)][columns]
    ELSE IF kind = "AA"
    THEN PreparedSoftAA[Len(xinfo)][columns][HasColumn(xinfo, "alleleA")]
    ELSE PreparedSoft[Len(xinfo)][columns]

---------------------------------------------------------------------------
(* The orchestrators *)

NoCall == [kind |-> "none", type |-> "none", info |-> <<>>, samples |-> {}]
NoPass ==
    [x |-> <<>>, prep |-> <<>>, ran |-> "none", err |-> "none", first |-> <<>>,
     reruns |-> {}]

\* no helper is called on its own while an orchestrator is the entry point
NoHelper == [fn |-> "none"]
NoReturn == [done |-> FALSE]

InitOn(files) ==
    /\ famfile \in files
    /\ seed \in HashSeeds
    /\ call = NoHelper
    /\ ret = NoReturn
    /\ pc = "idle"
    /\ ncalls = 0
    /\ hladat = NoCall
    /\ fam = <<>>
    /\ variants = <<>>
    /\ i = 0
    /\ loc = FreshLoc
    /\ output = <<>>
    /\ result = "none"
    /\ data = {}
    /\ last = NoPass

Init == InitOn(FamFiles)

\* the rows of info whose AA_ID is x: info[info.AA_ID==x]
InfoOf(info, x) ==
    SelectIdx(info, [k \in DOMAIN info |-> info[k].AA_ID = x], 1)

\* analyseAA, analyseSNP or analyseHLA is called on a table of the samples ids:
\* lines 332-335, 411-414, 463-466
CallOn(kind, datatype, info, ids) ==
    LET p == processAnalysisInput_(DataColumns(datatype, ids), info, famfile, datatype)
    IN  /\ pc = "idle"
        /\ hladat' = [kind |-> kind, type |-> datatype, info |-> info, samples |-> ids]
        /\ ncalls' = ncalls + 1
        /\ famfile' = p.famfile
        /\ loc' = FreshLoc
        /\ output' = <<>>
        /\ last' = NoPass
        /\ UNCHANGED <<call, ret, seed>>
        /\ IF p.err # "none"
           THEN /\ pc' = "idle"
                /\ result' = p.err
                /\ fam' = <<>>
                /\ variants' = <<>>
                /\ data' = {}
                /\ i' = 0
           ELSE /\ pc' = "loop"
                /\ result' = "none"
                /\ fam' = p.fam
                /\ variants' = p.variants
                /\ data' = p.columns
                /\ i' = 1

\* the first call on famfile, on any table of the pool
Call ==
    /\ ncalls = 0
    /\ \E kind \in Kinds, datatype \in Types :
        \E info \in InfoTables(kind, datatype) : CallOn(kind, datatype, info, DataIds)

\* a call, first or later, on a table of one row
Recall ==
    /\ ncalls < MaxCalls
    /\ \E kind \in Kinds, datatype \in Types :
        \E info \in {t \in InfoTables(kind, datatype) : Len(t) = 1} :
            CallOn(kind, datatype, info, DataIds)

\* the call of the scenario: analyseAA on the hard calls of one two-row variant
CallScenario ==
    /\ ncalls = 0
    /\ CallOn("AA", "hardcall", ScenarioInfo, ScenarioIds)

\* one pass of the for loop over the variants, on the slice read for variants[i]
Step(prep, est) ==
    LET x == variants[i]
        xinfo == InfoOf(hladat.info, x)
        \* the pass as each hash seed runs it: this process runs it under seed
        runs == [sd \in HashSeeds |->
                    Body(hladat.kind, loc, fam, x, xinfo, hladat.type, prep.built, est, sd)]
        r == runs[seed]
        f == Body(hladat.kind, FreshLoc, fam, x, xinfo, hladat.type, prep.built, est,
                  seed)
    IN  /\ last' = [x |-> x, prep |-> prep, ran |-> r.ran, err |-> r.err,
                     first |-> [err |-> f.err, row |-> f.row],
                     reruns |-> {runs[sd].row : sd \in HashSeeds}]
        /\ IF r.err # "none"
           THEN /\ pc' = "idle"
                /\ result' = r.err
                /\ output' = <<>>
                /\ loc' = FreshLoc
                /\ i' = 0
           ELSE /\ output' = Append(output, r.row)
                /\ loc' = r.loc
                /\ i' = i + 1
                /\ UNCHANGED <<pc, result>>
        /\ UNCHANGED <<famfile, ncalls, hladat, fam, variants, data, call, ret, seed>>

Iterate ==
    /\ pc = "loop"
    /\ i <= Len(variants)
    /\ \E prep \in Prepared(hladat.kind, hladat.type,
                            InfoOf(hladat.info, variants[i]), data) :
        \E est \in FitVals : Step(prep, est)

\* the loop is over: line 390 of analyseAA, and the return
Return ==
    /\ pc = "loop"
    /\ i > Len(variants)
    /\ output' = IF hladat.kind = "AA"
                 THEN [k \in DOMAIN output |->
                        output[k] @@ [LRp_Unip |-> LRpUnip(output[k])]]
                 ELSE output
    /\ pc' = "idle"
    /\ result' = "returned"
    /\ UNCHANGED <<famfile, ncalls, hladat, fam, variants, i, loc, data, last, call, ret,
                   seed>>

Next == Call \/ Iterate \/ Return

Spec == Init /\ [][Next]_vars

\* repeated calls on one famfile
NextRepeat == Recall \/ Iterate \/ Return

SpecRepeat == Init /\ [][NextRepeat]_vars

\* the scenario of two rows over four samples
NextScenario == CallScenario \/ Iterate \/ Return

SpecScenario == InitOn(ScenarioFamFiles) /\ [][NextScenario]_vars

---------------------------------------------------------------------------
(* The helpers called on their own: the orchestrators stay idle, call holds  *)
(* the helper's name and arguments, ret what it returned.                    *)

HelperInit(calls) ==
    /\ call \in calls
    /\ ret = NoReturn
    /\ seed \in HashSeeds
    /\ famfile = <<>>
    /\ pc = "idle"
    /\ ncalls = 0
    /\ hladat = NoCall
    /\ fam = <<>>
    /\ variants = <<>>
    /\ i = 0
    /\ loc = FreshLoc
    /\ output = <<>>
    /\ result = "none"
    /\ data = {}
    /\ last = NoPass

\* the helper fn runs to its return statement
Returns(fn, val) ==
    /\ call.fn = fn
    /\ ~ret.done
    /\ ret' = [done |-> TRUE, val |-> val]
    /\ UNCHANGED <<famfile, pc, ncalls, hladat, fam, variants, i, loc, output, result,
                   data, last, call, seed>>

Returned(fn) == call.fn = fn /\ ret.done

\* checkAAblock on a block of residue codes, of one letter or of two
MaxBlock == 3
Codes == {<<"F">>, <<"S">>, <<"Y">>, <<"F", "S">>}
Blocks == UNION {[1..n -> Codes] : n \in 0..MaxBlock}

CallResolver == Returns("checkAAblock", checkAAblock(call.aablock))

SpecResolver ==
    HelperInit({[fn |-> "checkAAblock", aablock |-> b] : b \in Blocks})
        /\ [][CallResolver]_vars

\* obt_haplo_soft on a slice of dosages and the info rows of its AA_ID, which
\* come with the allele columns or as HLAdata.add_data cuts them
MaxSoftRows == 2
SoftCalls(n) ==
    {[fn |-> "obt_haplo_soft", aadf |-> sl, infodf |-> t] :
        sl \in UNION {SoftSlices(n, columns) : columns \in ColumnSets("softcall")},
        t \in {[k \in 1..n |-> InfoRow(<<"AA", "A", "9", "100">>)],
                Bare([k \in 1..n |-> InfoRow(<<"AA", "A", "9", "100">>)])}}

CallSoft == Returns("obt_haplo_soft", obt_haplo_soft(call.aadf, call.infodf))

SpecSoft ==
    HelperInit(UNION {SoftCalls(n) : n \in 1..MaxSoftRows}) /\ [][CallSoft]_vars

\* makehaplodf on a slice of the hard calls of the samples ids.  A sample id
\* may itself hold the "." character
D1 == <<"s", "1", ".", "b">>
D2 == <<"s", "1", ".", "c">>
MatrixIdSets == {{S1, S2}, {S1}, {D1}, {D1, D2}, {S1, D1}}

\* A cohort large enough for the frequency floor to drop a column: one row on
\* which the first t copies carry "T" and every other copy "A"
MaxRare == 3
Cohorts == {10, 50, 100}
Digits == <<"0", "1", "2", "3", "4", "5", "6", "7", "8", "9">>
CohortId(k) ==
    <<"c", Digits[((k \div 100) % 10) + 1], Digits[((k \div 10) % 10) + 1],
      Digits[(k % 10) + 1]>>
CohortIds(n) == {CohortId(k) : k \in 1..n}
\* the j-th copy of the cohort: the copies of a sample are id and id + ".1"
Copy(j) ==
    IF (j % 2) = 1 THEN CohortId((j + 1) \div 2) ELSE CohortId(j \div 2) \o <<".", "1">>
CohortSlices ==
    {[index |-> << << <<"F">> >> >>, columns |-> DataColumns("hardcall", CohortIds(n)),
      val |-> << [c \in DataColumns("hardcall", CohortIds(n)) |->
                    IF c \in {Copy(j) : j \in 1..t} THEN "T" ELSE "A"] >>,
      ids |-> CohortIds(n)] : n \in Cohorts, t \in 0..MaxRare}

\* a slice, and the samples whose copies are its columns
SlicesOf(ids) ==
    {[index |-> sl.index, columns |-> sl.columns, val |-> sl.val, ids |-> ids] :
        sl \in UNION {HardSlices(n, DataColumns("hardcall", ids)) : n \in 1..MaxRows}}

MatrixCalls(idsets) ==
    {[fn |-> "makehaplodf", aa_df |-> sl, basicQC |-> b] :
        sl \in CohortSlices \cup UNION {SlicesOf(ids) : ids \in idsets},
        b \in BOOLEAN}

CallMatrix == Returns("makehaplodf", makehaplodf(call.aa_df, call.basicQC))

SpecMatrix == HelperInit(MatrixCalls(MatrixIdSets)) /\ [][CallMatrix]_vars

\* The analysis table of a hard-call variant, as an orchestrator builds it:
\* the genotype table of all the samples is cut to the covariate table's, the
\* variant's slice goes through obt_haplo_hard and the result is joined with
\* fam
GenotypeIds == UNION MatrixIdSets
CovariatesOf(ids) ==
    [s \in ids |-> IF s \in {S1, D1} THEN [SEX |-> 1, PHENO |-> 1]
                                      ELSE [SEX |-> 2, PHENO |-> 2]]
InputOf(ids) ==
    processAnalysisInput_(DataColumns("hardcall", GenotypeIds), ScenarioInfo,
                          CovariatesOf(ids), "hardcall")
TableCalls(idsets) ==
    UNION {{[fn |-> "abt", fam |-> InputOf(ids).fam, aadf |-> sl] :
                sl \in UNION {HardSlices(n, InputOf(ids).columns) : n \in 1..MaxRows}}
            : ids \in idsets}

\* lines 345-348
TableOf(built, famtable) ==
    IF built.err # "none" THEN [err |-> built.err]
    ELSE [err |-> "none", abt |-> Joined(built.haplodf, famtable)]

CallTable == Returns("abt", TableOf(obt_haplo_hard(call.aadf), call.fam))

SpecTable == HelperInit(TableCalls(MatrixIdSets)) /\ [][CallTable]_vars

---------------------------------------------------------------------------
(* What the properties read of a state *)

\* a pass of the loop has been made in the current call
Passed == last.x # <<>>

\* the last pass appended a row
Wrote == Passed /\ last.err = "none"

\* the row the last pass appended
LastRow == output[Len(output)]

\* the last pass read a slice to which the frequency floor applies: any
\* hard-call slice, and a soft-call amino-acid slice of several rows
Floored ==
    hladat.type = "hardcall" \/ (hladat.kind = "AA" /\ last.prep.rows > 1)

\* the columns that survived the floor, and those left for the fit
Survived == Len(last.prep.kept)
Remaining == Len(last.prep.built.haplodf.columns)

AllNA(row, fields) == \A f \in fields : row[f] = NaN

StatsAA == {"LR_p", "Anova_p", "multi_Coef", "Uni_p", "Uni_Coef"}

\* a label made of absence markers only
AllAbsent(h) ==
    /\ h # <<>>
    /\ \/ \A k \in DOMAIN h : h[k] = "A"
       \/ \A k \in DOMAIN h : h[k] = "a"

\* processAnalysisInput_ raised: the call ended before the loop
InputError == hladat # NoCall /\ result = "KeyError" /\ fam = <<>>

---------------------------------------------------------------------------
(* C1 *)

\* C1, as claimed: in analyseAA, where the frequency floor applies, 3 surviving
\* columns give the omnibus tier (obt run, LR_p and Anova_p set), 2 surviving
\* columns give the univariate tier (linear_model run, Uni_p set), and 1 or 0
\* surviving columns give a row whose five statistics are all not-applicable.
\* Read here where the builder returns.  The code departs from it: a hard-call
\* AA_ID of one row with three labels is given AAcount 2 and goes to
\* linear_model.
C1_TierBySurvivors ==
    (Passed /\ hladat.kind = "AA" /\ Floored /\ last.prep.built.err = "none") =>
        /\ Survived = 3 =>
            /\ last.err = "none" /\ last.ran = "obt"
            /\ IsNum(LastRow.LR_p) /\ IsNum(LastRow.Anova_p)
        /\ Survived = 2 =>
            /\ last.err = "none" /\ last.ran = "linear_model"
            /\ IsNum(LastRow.Uni_p)
        /\ Survived <= 1 =>
            /\ last.err = "none" /\ last.ran = "none"
            /\ AllNA(LastRow, StatsAA)

---------------------------------------------------------------------------
(* C2 *)

\* C2, as claimed: in analyseAA the tier follows the number of columns that
\* remain after the reference is removed: more than 2 omnibus, exactly 2
\* univariate, any other count a row of not-applicable statistics and Ref_AA.
\* Read here on the AA_IDs of several rows, where a reference column is
\* always removed.
C2_TierByRemaining ==
    (Wrote /\ hladat.kind = "AA" /\ last.prep.rows > 1) =>
        /\ Remaining > 2 => last.ran = "obt"
        /\ Remaining = 2 => last.ran = "linear_model"
        /\ Remaining < 2 =>
            /\ last.ran = "none"
            /\ AllNA(LastRow, StatsAA \cup {"Ref_AA"})

\* C2, amended: in analyseAA the tier follows AAcount as the builder returns
\* it: more than 2 omnibus, exactly 2 univariate, otherwise a row whose
\* statistics and Ref_AA are not-applicable; and for an AA_ID of several rows
\* AAcount is the number of columns that survive the floor, counted before the
\* reference column is removed, one more than the columns that remain.
C2_TierByAAcount ==
    (Wrote /\ hladat.kind = "AA") =>
        /\ last.prep.built.AAcount > 2 =>
            /\ last.ran = "obt"
            /\ IsNum(LastRow.LR_p) /\ IsNum(LastRow.Anova_p)
        /\ last.prep.built.AAcount = 2 =>
            /\ last.ran = "linear_model"
            /\ IsNum(LastRow.Uni_p)
        /\ last.prep.built.AAcount < 2 =>
            /\ last.ran = "none"
            /\ AllNA(LastRow, StatsAA \cup {"Ref_AA"})
        /\ last.prep.rows > 1 =>
            /\ last.prep.built.AAcount = Survived
            /\ last.prep.built.AAcount = Remaining + 1

\* three columns survive, two remain after the reference is removed, and the
\* omnibus test is run
C2_Witness ==
    /\ Wrote /\ hladat.kind = "AA" /\ last.prep.rows > 1
    /\ Survived = 3 /\ Remaining = 2
    /\ last.ran = "obt" /\ IsNum(LastRow.LR_p)

---------------------------------------------------------------------------
(* C3 *)

\* C3, as claimed: in obt_haplo_hard, whenever a label of absence markers only
\* (all "A", or all "a") is among the surviving columns, no error is raised,
\* the reference is "missing" and no such label is left among the exposure
\* columns.  Read here on the AA_IDs of several rows.  The code departs from
\* it: with the all-"a" label present and the all-"A" label absent, the drop
\* of the all-"A" column raises KeyError.
C3_AbsenceIsReference ==
    (Passed /\ hladat.type = "hardcall" /\ last.prep.rows > 1
        /\ \E k \in DOMAIN last.prep.kept : AllAbsent(last.prep.kept[k])) =>
        /\ last.prep.built.err = "none"
        /\ last.prep.built.refAA = Missing
        /\ \A k \in DOMAIN last.prep.built.haplodf.columns :
                ~AllAbsent(last.prep.built.haplodf.columns[k])

---------------------------------------------------------------------------
(* C4, on SpecScenario *)

ScenarioAA == <<"A", "A">>
ScenarioAT == <<"A", "T">>
ScenarioTA == <<"T", "A">>

\* C4, as claimed: with the labels AA four times, AT three times and TA once,
\* makehaplodf keeps 3 columns, analyseAA runs the omnibus tier and the
\* reference obt_haplo_hard reports is "AA".
C4_ReferenceIsAA ==
    Passed =>
        /\ Survived = 3
        /\ last.err = "none" /\ last.ran = "obt"
        /\ last.prep.built.refAA = Str(ScenarioAA)

\* C4, amended: with the labels AA four times, AT three times and TA once,
\* makehaplodf keeps the 3 columns AA, AT, TA with totals 4, 3, 1, analyseAA
\* runs the omnibus tier on the two columns AT and TA, and the reference
\* obt_haplo_hard reports, and the row's Ref_AA, is "missing": AA is the
\* all-absence label of a two-row AA_ID.
C4_ReferenceIsMissing ==
    Passed =>
        /\ last.prep.kept = <<ScenarioAA, ScenarioAT, ScenarioTA>>
        /\ last.prep.sums = <<4, 3, 1>>
        /\ last.err = "none" /\ last.ran = "obt"
        /\ IsNum(LastRow.LR_p) /\ IsNum(LastRow.Anova_p)
        /\ last.prep.built.haplodf.columns = <<ScenarioAT, ScenarioTA>>
        /\ last.prep.built.refAA = Missing
        /\ LastRow.Ref_AA = Missing

\* the scenario's variant has been analysed and its row written
C4_Witness ==
    /\ Wrote /\ hladat.samples = ScenarioIds
    /\ last.prep.rows = 2 /\ last.prep.sums = <<4, 3, 1>>
    /\ last.ran = "obt"

---------------------------------------------------------------------------
(* C5 *)

\* the statistic fields of a row of each orchestrator
Stats(kind) ==
    IF kind = "AA" THEN StatsAA ELSE {"Uni_p", "Uni_Coef", "CI_0025", "CI_0975"}

\* C5, as claimed: in each orchestrator, a variant with 0 or 1 column surviving
\* the frequency floor raises no error, has no model fitted, and gets a row
\* whose statistics are all not-applicable.  Read here where the builder
\* returns.  The code departs from it: analyseSNP leaves conf_int1 and
\* conf_int2 unassigned in that tier, and analyseHLA has no such tier.
C5_FewColumnsNotApplicable ==
    (Passed /\ Floored /\ last.prep.built.err = "none" /\ Survived <= 1) =>
        /\ last.err = "none"
        /\ last.ran = "none"
        /\ AllNA(LastRow, Stats(hladat.kind))

---------------------------------------------------------------------------
(* C6 *)

\* the three shapes of a row of analyseAA
OmnibusRow(row) ==
    /\ IsNum(row.LR_p) /\ IsNum(row.Anova_p) /\ row.multi_Coef[1] = "str"
    /\ AllNA(row, {"Uni_p", "Uni_Coef"})
UnivariateRow(row) ==
    /\ IsNum(row.Uni_p) /\ IsNum(row.Uni_Coef)
    /\ AllNA(row, {"LR_p", "Anova_p", "multi_Coef"})
UntestedRow(row) == AllNA(row, StatsAA \cup {"Ref_AA"})

\* C6: in every row of analyseAA the fields of a tier that was not run are
\* not-applicable, never a number: an omnibus row has Uni_p and Uni_Coef
\* not-applicable, a univariate row has LR_p, Anova_p and multi_Coef
\* not-applicable, and a row for which neither tier ran has all five and
\* Ref_AA not-applicable.
C6_UntestedIsNA ==
    (hladat.kind = "AA") =>
        /\ \A k \in DOMAIN output :
                OmnibusRow(output[k]) \/ UnivariateRow(output[k]) \/ UntestedRow(output[k])
        /\ Wrote =>
            /\ last.ran = "obt" => OmnibusRow(LastRow)
            /\ last.ran = "linear_model" => UnivariateRow(LastRow)
            /\ last.ran = "none" => UntestedRow(LastRow)

\* a univariate row whose estimate is 0 next to an untested row: the number 0
\* and the not-applicable marker are both in the table
C6_Witness ==
    /\ hladat.kind = "AA" /\ Wrote /\ Len(output) = 2
    /\ last.ran = "none" /\ UntestedRow(output[2])
    /\ UnivariateRow(output[1]) /\ output[1].Uni_p = Num(0)

---------------------------------------------------------------------------
(* C7 *)

\* C7, as claimed: the row an orchestrator writes for a variant is the row the
\* same variant gets when it is analysed first, on the same slice, covariates
\* and fit: nothing computed for an earlier variant shows in it.  The code
\* departs from it: in analyseSNP a variant of the not-applicable tier is
\* written with the confidence bounds of the last fitted variant, and raises
\* UnboundLocalError when no variant was fitted before it.
C7_RowOfOwnData ==
    (pc = "loop" /\ Wrote) =>
        /\ last.first.err = "none"
        /\ LastRow = last.first.row

---------------------------------------------------------------------------
(* C8, on SpecRepeat *)

\* the samples both tables name
Common == DOMAIN famfile \cap hladat.samples

\* C8, as claimed: when the two tables share a sample, the genotype table is
\* cut to the common samples and the orchestrator proceeds; an error is
\* signalled only when they share none.
C8_TrimToCommon ==
    (hladat # NoCall) =>
        IF Common # {}
        THEN /\ ~InputError
             /\ data = DataColumns(hladat.type, Common)
        ELSE InputError

\* C8, amended: when every sample of the covariate table has its columns in
\* the genotype table, the genotype table is cut to the covariate table's
\* samples, the covariate table keeps all its rows and the orchestrator
\* proceeds; when the covariate table names a sample without a column in the
\* genotype table, KeyError is raised before any variant is analysed, whether
\* or not the tables share other samples.
C8_TrimToCovariates ==
    (hladat # NoCall) =>
        IF DOMAIN famfile \subseteq hladat.samples
        THEN /\ ~InputError
             /\ data = DataColumns(hladat.type, DOMAIN famfile)
             /\ DOMAIN fam = DOMAIN famfile
        ELSE InputError

\* a covariate table of fewer samples: the genotype table has been cut to them
\* and a variant analysed
C8_Witness ==
    /\ Wrote
    /\ DOMAIN famfile # hladat.samples /\ DOMAIN famfile \subseteq hladat.samples
    /\ data = DataColumns(hladat.type, DOMAIN famfile)
    /\ data # DataColumns(hladat.type, hladat.samples)

---------------------------------------------------------------------------
(* C9, on SpecRepeat *)

\* C9: in every call, first or later on the same famfile, the PHENO of each
\* sample in fam and in the analysis table is the sample's input PHENO minus
\* one, and the caller's famfile keeps its values 1 and 2.
C9_RebasedOnce ==
    /\ \A s \in DOMAIN famfile : famfile[s].PHENO \in {1, 2}
    /\ pc = "loop" =>
        /\ \A s \in DOMAIN fam : fam[s].PHENO = famfile[s].PHENO - 1
        /\ Passed =>
            \A s \in DOMAIN fam : loc.abt.PHENO[s] = Num(famfile[s].PHENO - 1)

\* in a second call on the same famfile, an analysis table has been built in
\* which an input PHENO of 1 is 0
C9_Witness ==
    /\ ncalls = 2 /\ pc = "loop" /\ Passed
    /\ \E s \in DOMAIN fam : famfile[s].PHENO = 1 /\ loc.abt.PHENO[s] = Num(0)

---------------------------------------------------------------------------
(* C10 *)

\* the first row of info that carries the id v
FirstAt(info, v) ==
    CHOOSE k \in DOMAIN info :
        info[k].AA_ID = v /\ \A j \in 1..(k - 1) : info[j].AA_ID # v

\* C10: a call that returns gives one row for each distinct AA_ID of the info
\* table, and the rows, while they are written and when they are returned,
\* are in the order in which the ids first occur in the info table.
C10_RowPerVariantInOrder ==
    /\ (result = "returned") =>
            {output[k].VARIANT : k \in DOMAIN output}
                = {hladat.info[k].AA_ID : k \in DOMAIN hladat.info}
    /\ (output # <<>>) =>
        /\ output[1].VARIANT = hladat.info[1].AA_ID
        /\ \A a, b \in DOMAIN output :
                a < b => FirstAt(hladat.info, output[a].VARIANT)
                            < FirstAt(hladat.info, output[b].VARIANT)

\* a returned table of two rows for an info table of three, whose first id
\* occurs again after the second
C10_Witness ==
    /\ result = "returned" /\ Len(output) = 2 /\ Len(hladat.info) = 3
    /\ hladat.info[1].AA_ID = hladat.info[3].AA_ID
    /\ hladat.info[1].POS = "200"
    /\ output[1].VARIANT = hladat.info[1].AA_ID

---------------------------------------------------------------------------
(* C11, on SpecSoft *)

SoloColumn == <<"solo_amino_acid">>

\* the slice has one row, and the token that ends the row's id
OneRow == Len(call.aadf.index) = 1
Suffix == LastToken(call.aadf.index[1])

\* the exposure matrix is the row's dosages, one column over the samples
LoneDosageColumn(df) ==
    /\ df.columns = <<SoloColumn>>
    /\ df.index = call.aadf.columns
    /\ \A s \in df.index : df.cell[s][SoloColumn] = call.aadf.val[1][s]

\* analyseAA, given what the builder returned, runs linear_model
UnivariateTier(built) ==
    /\ built.AAcount = 2
    /\ \A est \in FitVals :
        BodyAA(FreshLoc, Rebase(CovariatesOf(call.aadf.columns)), call.infodf[1].AA_ID,
               call.infodf, built, est, seed).ran = "linear_model"

\* C11, as claimed: for a soft-call AA_ID of one row the exposure matrix is
\* the lone dosage column, the univariate tier is selected and the reference
\* returned is the alleleA of the info row.  Read here on the info tables
\* that have the allele columns.
C11_ReferenceIsAlleleA ==
    (Returned("obt_haplo_soft") /\ OneRow /\ HasColumn(call.infodf, "alleleA")) =>
        /\ ret.val.err = "none"
        /\ LoneDosageColumn(ret.val.haplodf)
        /\ UnivariateTier(ret.val)
        /\ ret.val.refAA = Str(call.infodf[1].alleleA)

\* C11, amended: for a soft-call AA_ID of one row the exposure matrix is the
\* lone dosage column and the univariate tier is selected; the reference
\* returned is the suffix of the row's id when that suffix is one character,
\* and the alleleA of the info row otherwise; with a longer suffix and an info
\* table that has no allele columns, KeyError is raised.
C11_ReferenceBySuffix ==
    (Returned("obt_haplo_soft") /\ OneRow) =>
        IF Len(Suffix) # 1 /\ ~HasColumn(call.infodf, "alleleA")
        THEN ret.val.err = "KeyError"
        ELSE /\ ret.val.err = "none"
             /\ LoneDosageColumn(ret.val.haplodf)
             /\ UnivariateTier(ret.val)
             /\ ret.val.refAA = IF Len(Suffix) = 1 THEN Str(Suffix)
                                 ELSE Str(call.infodf[1].alleleA)

\* a row whose id ends in two letters has been given the reference alleleA,
\* and its two dosages, which differ, are the exposure column
C11_Witness ==
    /\ Returned("obt_haplo_soft") /\ OneRow /\ Len(Suffix) = 2
    /\ ret.val.err = "none"
    /\ ret.val.refAA = Str(AlleleA)
    /\ call.aadf.columns = {S1, S2}
    /\ ret.val.haplodf.cell[S1][SoloColumn] = 0
    /\ ret.val.haplodf.cell[S2][SoloColumn] = 1

---------------------------------------------------------------------------
(* C12, on SpecTable *)

\* the two copy columns of the sample s
CopiesOf(s) == {s, s \o <<".", "1">>}

\* C12, as claimed: the analysis table has one row for each sample of the
\* covariate table and no other row, and the row of a sample holds its own SEX
\* and PHENO and, in each haplotype column, the number of its own two copies
\* that carry the label.  The code departs from it: the row of the haplotype
\* matrix is named by the id cut at its first ".", so that a sample whose id
\* holds a "." gets a row of NaN counts and its counts go to another row.
C12_RowPerSample ==
    (Returned("abt") /\ ret.val.err = "none") =>
        /\ ret.val.abt.index = DOMAIN call.fam
        /\ \A s \in DOMAIN call.fam :
            /\ s \in ret.val.abt.index
            /\ ret.val.abt.SEX[s] = Num(call.fam[s].SEX)
            /\ ret.val.abt.PHENO[s] = Num(call.fam[s].PHENO)
            /\ \A h \in Range(Exposure(ret.val.abt)) :
                    ret.val.abt.cell[s][h]
                        = Num(Cardinality({c \in CopiesOf(s) : HaploOf(call.aadf, c) = h}))

---------------------------------------------------------------------------
(* C13, C14, on SpecMatrix *)

\* the copies of the slice that carry the label h
Copies(aa_df, h) == Cardinality({c \in aa_df.columns : HaploOf(aa_df, c) = h})
LabelsOf(aa_df) == {HaploOf(aa_df, c) : c \in aa_df.columns}

RowSum(df, s) == SumOver(Range(df.columns), [h \in Range(df.columns) |-> df.cell[s][h]])
GrandTotal(df) == SumOver(DOMAIN df.columns, ColSums(df))

\* C13, as claimed: without the frequency filter the count matrix has one row
\* for each sample, every cell is 0, 1 or 2, every row sums to 2 and the
\* column totals divided by twice the number of rows sum to 1; with the filter
\* every row sums to 2 at most.  The code departs from it: two samples whose
\* ids agree up to their first "." share one row, which counts the copies of
\* both.
C13_UnitMassPerCopy ==
    Returned("makehaplodf") =>
        IF call.basicQC
        THEN \A s \in ret.val.df.index : RowSum(ret.val.df, s) <= 2
        ELSE /\ Cardinality(ret.val.df.index) = Cardinality(call.aa_df.ids)
             /\ \A s \in ret.val.df.index :
                    /\ \A h \in Range(ret.val.df.columns) :
                            ret.val.df.cell[s][h] \in 0..2
                    /\ RowSum(ret.val.df, s) = 2
             /\ GrandTotal(ret.val.df) = 2 * Cardinality(ret.val.df.index)

---------------------------------------------------------------------------
(* C17 *)

\* C17, as claimed: whenever an orchestrator has run linear_model for a
\* variant, the analysis table it was run on has exactly one exposure column
\* before SEX and PHENO.  Read here on the case the claim names, the
\* hard-call variants of one row.  The code departs from it: such a variant
\* with three labels is given AAcount 2 and keeps two exposure columns.
C17_OneExposure ==
    (Wrote /\ pc = "loop" /\ last.ran = "linear_model"
        /\ hladat.type = "hardcall" /\ last.prep.rows = 1) =>
        Len(Exposure(loc.abt)) = 1

---------------------------------------------------------------------------
(* C18 *)

\* C18, as claimed: in the table analyseAA returns, LRp_Unip is LR_p on an
\* omnibus row and Uni_p on a univariate row, and it is not-applicable on the
\* rows where LR_p and Uni_p both are, and on no other row.  The code departs
\* from it: a p-value of 0 is replaced by the not-applicable marker.
C18_CombinedP ==
    (result = "returned" /\ hladat.kind = "AA") =>
        \A k \in DOMAIN output :
            /\ IsNum(output[k].LR_p) => output[k].LRp_Unip = output[k].LR_p
            /\ IsNum(output[k].Uni_p) => output[k].LRp_Unip = output[k].Uni_p
            /\ output[k].LRp_Unip = NaN
                    <=> (output[k].LR_p = NaN /\ output[k].Uni_p = NaN)

---------------------------------------------------------------------------
(* C15, C16, on SpecResolver *)

\* how many elements of the block are the code c
Times(block, c) == Cardinality({k \in DOMAIN block : block[k] = c})

OneLetterCodes(block) == \A k \in DOMAIN block : Len(block[k]) = 1

\* the letters that occur in the codes of the block, and the letters that
\* occur most often
Letters(block) == Range(Flatten(block))
TopLetters(block) ==
    {l \in Letters(block) :
        \A m \in Letters(block) : Count(Flatten(block), m) <= Count(Flatten(block), l)}

\* the two highest letter counts are equal
Tied(block) == Cardinality(TopLetters(block)) > 1
OneLetter(block) == Cardinality(Letters(block)) = 1

\* C15: on a block of one-letter codes, checkAAblock returns the code that
\* occurs strictly more often than every other code of the block, when there
\* is one; on the empty block it returns the empty string.
C15_MajorityCode ==
    (Returned("checkAAblock") /\ OneLetterCodes(call.aablock)) =>
        /\ call.aablock = <<>> => ret.val = Str(<<>>)
        /\ \A c \in Range(call.aablock) :
                (\A d \in Range(call.aablock) \ {c} :
                    Times(call.aablock, d) < Times(call.aablock, c))
                => ret.val = Str(c)

\* the block S, F, F has been resolved to F, which is not its first code
C15_Witness ==
    /\ Returned("checkAAblock")
    /\ call.aablock = << <<"S">>, <<"F">>, <<"F">> >>
    /\ ret.val = Str(<<"F">>)

\* C16, as claimed: checkAAblock returns the block it was given, whole, when
\* the two highest letter counts are tied and also when one letter only
\* occurs in the block.
C16_BlockKeptWhole ==
    (Returned("checkAAblock") /\ (Tied(call.aablock) \/ OneLetter(call.aablock))) =>
        ret.val = Arr(call.aablock)

\* C16, amended: checkAAblock returns the block it was given, whole, when the
\* two highest letter counts are tied; when one letter only occurs in the
\* block it returns the first element of the block, a single code.
C16_BlockKeptOnTie ==
    Returned("checkAAblock") =>
        /\ Tied(call.aablock) => ret.val = Arr(call.aablock)
        /\ OneLetter(call.aablock) => ret.val = Str(call.aablock[1])

\* the tied block F, S has come back whole
C16_Witness ==
    /\ Returned("checkAAblock")
    /\ call.aablock = << <<"F">>, <<"S">> >>
    /\ ret.val = Arr(<< <<"F">>, <<"S">> >>)

---------------------------------------------------------------------------
(* C19 *)

\* C19, as claimed: the row analyseAA writes for a variant is the row every
\* run on the same inputs writes, the text of Amino_Acids included.  The code
\* departs from it: the amino acids are joined in the iteration order of a
\* set of str, which changes with the hash seed of the process.
C19_SameRowEveryRun ==
    (pc = "loop" /\ Wrote /\ hladat.kind = "AA") =>
        last.reruns = {LastRow}

====
